---- MODULE Spec2Model ----
(***************************************************************************)
(* A model of ini2toml / cfg2toml:                                         *)
(*   - IntermediateRepr (src/src/ini2toml/intermediate_repr.py): an        *)
(*     ordered mapping kept as a dict `elements` plus a list `order`;      *)
(*   - CommentedKV.to_ir (same file);                                      *)
(*   - collapse (src/src/ini2toml/drivers/plain_builtins.py);              *)
(*   - Translator and translate_option (src/src/cfg2toml/translator.py).   *)
(* Each part has its own specification over its own variables; the other  *)
(* variables stay at their initial value.                                  *)
(***************************************************************************)
EXTENDS Integers, Sequences, FiniteSets, TLC

VARIABLES
    \* IntermediateRepr
    elements, order, inline_comment, irLast,
    \* Translator
    profiles, cfg_parser_opts, nextId, registered, firstGot, lastLookup, calls,
    \* collapse
    obj, collapsed,
    \* CommentedKV.to_ir
    data, promoted,
    \* translate_option
    item, parser_opts, container

irVars == <<elements, order, inline_comment, irLast>>

trVars == <<profiles, cfg_parser_opts, nextId, registered, firstGot, lastLookup, calls>>

coVars == <<obj, collapsed>>

kvVars == <<data, promoted>>

opVars == <<item, parser_opts, container>>

vars == <<irVars, trVars, coVars, kvVars, opVars>>

(***************************************************************************)
(* Python list and dict primitives used by the code                        *)
(***************************************************************************)
Range(s) == {s[i] : i \in DOMAIN s}

Min(S) == CHOOSE x \in S : \A y \in S : x <= y

\* list.index(x): 0-based position of the first occurrence (caller checks presence)
ListIndex(s, x) == Min({i \in DOMAIN s : s[i] = x}) - 1

\* list.insert(i, x): a negative i counts from the end, out-of-range i is clamped
ListInsert(s, i, x) ==
    LET n == Len(s)
        j == IF i < 0 THEN (IF n + i < 0 THEN 0 ELSE n + i)
             ELSE (IF i > n THEN n ELSE i)
    IN  SubSeq(s, 1, j) \o <<x>> \o SubSeq(s, j + 1, n)

\* list.remove(x): drops the first occurrence (caller checks presence)
ListRemove(s, x) ==
    LET p == ListIndex(s, x) + 1
    IN  SubSeq(s, 1, p - 1) \o SubSeq(s, p + 1, Len(s))

\* d[k] = v
DictSet(d, k, v) == [x \in DOMAIN d \cup {k} |-> IF x = k THEN v ELSE d[x]]

\* del d[k]
DictDel(d, k) == [x \in DOMAIN d \ {k} |-> d[x]]

(***************************************************************************)
(* IntermediateRepr                                                        *)
(***************************************************************************)
Keys == {"a", "b", "c"}
Values == {1, 2}

\* longest existing_keys argument tried
MaxExisting == 3

NoRet == -1

\* the outcome of one method call: the fields after it, how it ended, what it returned
Result(els, ord, outcome, ret) ==
    [elements |-> els, order |-> ord, outcome |-> outcome, ret |-> ret]

\* insert that puts the key into the order before it looks for a duplicate
insert_then_check(els, ord, i, key, value) ==
    IF key \in Range(ord)
    THEN Result(els, ListInsert(ord, i, key), "ValueError", NoRet)
    ELSE Result(DictSet(els, key, value), ListInsert(ord, i, key), "ok", NoRet)

\* IntermediateRepr.insert
insert(els, ord, i, key, value) ==
    IF key \in Range(ord)
    THEN Result(els, ord, "ValueError", NoRet)
    ELSE Result(DictSet(els, key, value), ListInsert(ord, i, key), "ok", NoRet)

\* IntermediateRepr.append
append(els, ord, key, value) == insert(els, ord, Len(ord), key, value)

\* rename that moves the renamed key to the end instead of keeping its place
rename_at_end(els, ord, old_key, new_key, ignore_missing) ==
    IF old_key = new_key THEN Result(els, ord, "ok", NoRet)
    ELSE IF new_key \in Range(ord) THEN Result(els, ord, "ValueError", NoRet)
    ELSE IF old_key \notin Range(ord) /\ ignore_missing THEN Result(els, ord, "ok", NoRet)
    ELSE IF old_key \notin Range(ord) THEN Result(els, ord, "ValueError", NoRet)
    ELSE Result(DictSet(DictDel(els, old_key), new_key, els[old_key]),
                Append(ListRemove(ord, old_key), new_key), "ok", NoRet)

\* IntermediateRepr.rename
rename(els, ord, old_key, new_key, ignore_missing) ==
    IF old_key = new_key THEN Result(els, ord, "ok", NoRet)
    ELSE IF new_key \in Range(ord) THEN Result(els, ord, "ValueError", NoRet)
    ELSE IF old_key \notin Range(ord) /\ ignore_missing THEN Result(els, ord, "ok", NoRet)
    ELSE IF old_key \notin Range(ord) THEN Result(els, ord, "ValueError", NoRet)
    ELSE LET i == ListIndex(ord, old_key)
             ord1 == [ord EXCEPT ![i + 1] = new_key]
         IN  IF old_key \notin DOMAIN els
             THEN Result(els, ord1, "KeyError", NoRet)
             ELSE Result(DictSet(DictDel(els, old_key), new_key, els[old_key]),
                         ord1, "ok", NoRet)

\* IntermediateRepr.__setitem__
setitem(els, ord, key, value) ==
    Result(DictSet(els, key, value),
           IF key \notin DOMAIN els THEN Append(ord, key) ELSE ord,
           "ok", NoRet)

\* __delitem__ that forgets `self.order.remove(key)`
delitem_keeps_order(els, ord, key) ==
    IF key \notin DOMAIN els THEN Result(els, ord, "KeyError", NoRet)
    ELSE Result(DictDel(els, key), ord, "ok", NoRet)

\* IntermediateRepr.__delitem__
delitem(els, ord, key) ==
    IF key \notin DOMAIN els THEN Result(els, ord, "KeyError", NoRet)
    ELSE IF key \notin Range(ord) THEN Result(DictDel(els, key), ord, "ValueError", NoRet)
    ELSE Result(DictDel(els, key), ListRemove(ord, key), "ok", NoRet)

\* MutableMapping.pop(key, None) as inherited by IntermediateRepr
pop(els, ord, key) ==
    IF key \notin DOMAIN els THEN Result(els, ord, "ok", NoRet)
    ELSE delitem(els, ord, key)

\* the loop `for key in existing_keys: self.pop(key, None)`
RECURSIVE PopAll(_, _, _)
PopAll(els, ord, ks) ==
    IF ks = <<>> THEN Result(els, ord, "ok", NoRet)
    ELSE LET r == pop(els, ord, Head(ks))
         IN  IF r.outcome # "ok" THEN r
             ELSE PopAll(r.elements, r.order, Tail(ks))

\* idx = [self.index(k) for k in existing_keys if k in self]
PresentIdx(els, ord, existing_keys) ==
    {ListIndex(ord, existing_keys[j]) :
        j \in {n \in DOMAIN existing_keys : existing_keys[n] \in DOMAIN els}}

\* sorted(idx)[-1]: the last match instead of the first
LastIdx(idx) == CHOOSE x \in idx : \A y \in idx : y <= x

\* sorted(idx)[0]
FirstIdx(idx) == Min(idx)

\* IntermediateRepr.replace_first_remove_others
replace_first_remove_others(els, ord, existing_keys, new_key, value) ==
    IF \E j \in DOMAIN existing_keys :
          existing_keys[j] \in DOMAIN els /\ existing_keys[j] \notin Range(ord)
    THEN Result(els, ord, "ValueError", NoRet)
    ELSE LET idx == PresentIdx(els, ord, existing_keys)
             i == IF idx = {} THEN Len(ord) ELSE FirstIdx(idx)
             popped == IF idx = {} THEN Result(els, ord, "ok", NoRet)
                       ELSE PopAll(els, ord, existing_keys)
         IN  IF popped.outcome # "ok" THEN popped
             ELSE LET r == insert(popped.elements, popped.order, i, new_key, value)
                  IN  Result(r.elements, r.order, r.outcome,
                             IF r.outcome = "ok" THEN i ELSE NoRet)

\* a call record: the operation, its arguments and the fields before the call
Call(op, key, key2, keys, idx, value, flag) ==
    [op |-> op, key |-> key, key2 |-> key2, keys |-> keys, idx |-> idx,
     value |-> value, flag |-> flag,
     pre_elements |-> elements, pre_order |-> order, pre_comment |-> inline_comment]

Done(call, r) ==
    /\ irLast.call.op \in {"init", "returned"}
    /\ elements' = r.elements
    /\ order' = r.order
    /\ inline_comment' = inline_comment
    /\ irLast' = [call |-> call, outcome |-> r.outcome, ret |-> r.ret]
    /\ UNCHANGED <<trVars, coVars, kvVars, opVars>>

\* indices a caller may pass to insert: in range, negative, and beyond both ends
Indices(ord) == (0 - Len(ord) - 1) .. (Len(ord) + 1)

KeySeqs == UNION {[1..n -> Keys] : n \in 0..MaxExisting}

Insert ==
    \E k \in Keys, v \in Values, i \in Indices(order) :
        Done(Call("insert", k, "", <<>>, i, v, FALSE), insert(elements, order, i, k, v))

AppendKey ==
    \E k \in Keys, v \in Values :
        Done(Call("append", k, "", <<>>, 0, v, FALSE), append(elements, order, k, v))

Rename ==
    \E old \in Keys, new \in Keys, ign \in BOOLEAN :
        Done(Call("rename", old, new, <<>>, 0, 0, ign),
             rename(elements, order, old, new, ign))

SetItem ==
    \E k \in Keys, v \in Values :
        Done(Call("setitem", k, "", <<>>, 0, v, FALSE), setitem(elements, order, k, v))

DelItem ==
    \E k \in Keys :
        Done(Call("delitem", k, "", <<>>, 0, 0, FALSE), delitem(elements, order, k))

ReplaceFirstRemoveOthers ==
    \E ks \in KeySeqs, k \in Keys, v \in Values :
        Done(Call("replace_first_remove_others", "", k, ks, 0, v, FALSE),
             replace_first_remove_others(elements, order, ks, k, v))

\* the caller has taken the result: the call record is dropped
Return ==
    /\ irLast.call.op \notin {"init", "returned"}
    /\ irLast' = [call |-> [op |-> "returned", key |-> "", key2 |-> "", keys |-> <<>>,
                            idx |-> 0, value |-> 0, flag |-> FALSE,
                            pre_elements |-> <<>>, pre_order |-> <<>>,
                            pre_comment |-> ""],
                  outcome |-> "ok", ret |-> NoRet]
    /\ UNCHANGED <<elements, order, inline_comment>>
    /\ UNCHANGED <<trVars, coVars, kvVars, opVars>>

\* IntermediateRepr(): no elements, no order, no inline comment
IRInit ==
    /\ elements = <<>>
    /\ order = <<>>
    /\ inline_comment = ""
    /\ irLast = [call |-> [op |-> "init", key |-> "", key2 |-> "", keys |-> <<>>,
                           idx |-> 0, value |-> 0, flag |-> FALSE,
                           pre_elements |-> <<>>, pre_order |-> <<>>,
                           pre_comment |-> ""],
                 outcome |-> "ok", ret |-> NoRet]

(***************************************************************************)
(* Translator                                                              *)
(***************************************************************************)
Names == {"simple", "other"}
Texts == {"t1", "t2"}

\* a mapping of parser options, as a set of (option, value) pairs
NoOpts == {}
Overrides == {<<"comment_prefixes", "#">>}

\* Profile's own cfg_parser_opts when none are given
DefaultOpts == {}

\* what a pre/post-processor may do to the object it is handed:
\* change it in place, or build and return another object
Fns == {"edit", "swap"}

\* longest processor chain of a profile
MaxChain == 2

Chains == UNION {[1..n -> Fns] : n \in 0..MaxChain}

CallIds == {"c1", "c2"}

\* Profile(name)
Profile(name, id) ==
    [id |-> id, name |-> name, cfg_parser_opts |-> DefaultOpts,
     pre_processors |-> <<>>, post_processors |-> <<>>]

\* profile.replace(cfg_parser_opts=opts): a new record
ProfileReplace(p, id, opts) == [p EXCEPT !.id = id, !.cfg_parser_opts = opts]

NoProfile == Profile("", 0)

\* __getitem__ that builds a default profile on every call
getitem_fresh(profs, opts, nid, name) ==
    LET p0 == Profile(name, nid)
        p == IF opts # {} THEN ProfileReplace(p0, nid + 1, opts) ELSE p0
    IN  [profiles |-> DictSet(profs, name, p),
         nextId |-> IF opts # {} THEN nid + 2 ELSE nid + 1,
         ret |-> p]

\* Translator.__getitem__
getitem(profs, opts, nid, name) ==
    IF name \notin DOMAIN profs
    THEN LET p0 == Profile(name, nid)
             p == IF opts # {} THEN ProfileReplace(p0, nid + 1, opts) ELSE p0
             ps == DictSet(profs, name, p)
         IN  [profiles |-> ps,
              nextId |-> IF opts # {} THEN nid + 2 ELSE nid + 1,
              ret |-> ps[name]]
    ELSE [profiles |-> profs, nextId |-> nid, ret |-> profs[name]]

\* a translate that never refuses a profile name
NeverUndefined(profs, name) == FALSE

\* a translate that refuses a name only while no profile at all is registered
UndefinedIfNoneRegistered(profs, name) == DOMAIN profs = {}

\* `if profile_name not in self.profiles: raise UndefinedProfile(profile_name)`
Undefined(profs, name) == name \notin DOMAIN profs

\* an INI tree (ConfigUpdater) object
NoTree == [id |-> 0, src |-> "", opts |-> {}, edits |-> <<>>]

\* ConfigUpdater(**opts).read_string(cfg): a new tree holding the parse of cfg
ReadString(cfg, opts, id) == [id |-> id, src |-> cfg, opts |-> opts, edits |-> <<>>]

\* a TOML document object
NoDoc == [id |-> 0, src |-> "", tree_edits |-> <<>>, edits |-> <<>>]

\* doc = document(); translate_cfg(doc, updater)
TranslateCfg(tree, id) ==
    [id |-> id, src |-> tree.src, tree_edits |-> tree.edits, edits |-> <<>>]

\* dumps(doc).strip()
NoOut == [src |-> "", tree_edits |-> <<>>, edits |-> <<>>]
Dumps(doc) == [src |-> doc.src, tree_edits |-> doc.tree_edits, edits |-> doc.edits]

\* fn(acc): the processor either changes acc in place or returns a new object
ApplyFn(fn, acc, newid) ==
    IF fn = "edit"
    THEN [acc EXCEPT !.edits = Append(@, fn)]
    ELSE [acc EXCEPT !.id = newid, !.edits = Append(@, fn)]

\* reduce over the chain in reverse
PreFnReversed(chain, i) == chain[Len(chain) + 1 - i]

\* reduce(lambda acc, fn: fn(acc), profile.pre_processors, updater): the i-th step
PreFn(chain, i) == chain[i]

\* reduce(lambda acc, fn: fn(orig, acc), profile.post_processors, doc): the i-th step
PostFn(chain, i) == chain[i]

\* handing the pre-processed tree to the post-processors instead of a new parse
OrigIsUpdater(call) == call.updater

\* orig = ConfigUpdater(**profile.cfg_parser_opts).read_string(cfg)
OrigTree(call) == ReadString(call.cfg, call.profile.cfg_parser_opts, call.nobj + 1)

IdleCall ==
    [pc |-> "idle", name |-> "", cfg |-> "", known |-> {}, profile |-> NoProfile,
     updater |-> NoTree, doc |-> NoDoc, orig |-> NoTree, log |-> <<>>,
     out |-> NoOut, err |-> "", nobj |-> 0]

\* one stage of a translate call, with what it was handed and what it returned
Event(stage, idx, fn, tree_in, tree_out, doc_in, doc_out, orig) ==
    [stage |-> stage, idx |-> idx, fn |-> fn, tree_in |-> tree_in,
     tree_out |-> tree_out, doc_in |-> doc_in, doc_out |-> doc_out, orig |-> orig]

\* number of stage events of a call so far
Stages(call, stage) == Cardinality({k \in DOMAIN call.log : call.log[k].stage = stage})

\* bookkeeping of an evaluation of translator[name]
Looked(name, r) ==
    /\ profiles' = r.profiles
    /\ nextId' = r.nextId
    /\ firstGot' = IF name \in DOMAIN firstGot THEN firstGot
                   ELSE DictSet(firstGot, name, r.ret)
    /\ lastLookup' = [name |-> name, ret |-> r.ret, before |-> profiles]

\* translator[name]
Lookup ==
    \E name \in Names :
        /\ Looked(name, getitem(profiles, cfg_parser_opts, nextId, name))
        /\ UNCHANGED <<cfg_parser_opts, registered, calls, irVars, coVars, kvVars, opVars>>

\* translate(cfg, name), lines 42-43
TranslateBegin(c) ==
    \E name \in Names, cfg \in Texts :
        /\ calls[c].pc \in {"idle", "done", "failed"}
        /\ calls' = [calls EXCEPT ![c] =
              IF Undefined(profiles, name)
              THEN [IdleCall EXCEPT !.pc = "failed", !.name = name, !.cfg = cfg,
                                    !.known = registered \cup DOMAIN firstGot,
                                    !.err = "UndefinedProfile"]
              ELSE [IdleCall EXCEPT !.pc = "lookup", !.name = name, !.cfg = cfg,
                                    !.known = registered \cup DOMAIN firstGot]]
        /\ UNCHANGED <<profiles, cfg_parser_opts, nextId, registered, firstGot, lastLookup,
                   irVars, coVars, kvVars, opVars>>

\* profile = self[profile_name]
TranslateLookup(c) ==
    /\ calls[c].pc = "lookup"
    /\ LET r == getitem(profiles, cfg_parser_opts, nextId, calls[c].name)
       IN  /\ Looked(calls[c].name, r)
           /\ calls' = [calls EXCEPT ![c].pc = "parse", ![c].profile = r.ret]
    /\ UNCHANGED <<cfg_parser_opts, registered, irVars, coVars, kvVars, opVars>>

\* updater = ConfigUpdater(**profile.cfg_parser_opts).read_string(cfg)
TranslateParse(c) ==
    /\ calls[c].pc = "parse"
    /\ LET call == calls[c]
           t == ReadString(call.cfg, call.profile.cfg_parser_opts, call.nobj + 1)
       IN  calls' = [calls EXCEPT
              ![c].pc = "pre", ![c].updater = t, ![c].nobj = call.nobj + 1,
              ![c].log = Append(call.log,
                                Event("parse", 0, "", NoTree, t, NoDoc, NoDoc, NoTree))]
    /\ UNCHANGED <<profiles, cfg_parser_opts, nextId, registered, firstGot, lastLookup,
                   irVars, coVars, kvVars, opVars>>

\* one step of reduce(..., profile.pre_processors, updater); fn may raise
TranslatePre(c) ==
    /\ calls[c].pc = "pre"
    /\ Stages(calls[c], "pre") < Len(calls[c].profile.pre_processors)
    /\ LET call == calls[c]
           i == Stages(call, "pre") + 1
           fn == PreFn(call.profile.pre_processors, i)
           t == ApplyFn(fn, call.updater, call.nobj + 1)
       IN  \/ calls' = [calls EXCEPT
                 ![c].updater = t, ![c].nobj = call.nobj + 1,
                 ![c].log = Append(call.log,
                                   Event("pre", i, fn, call.updater, t, NoDoc, NoDoc, NoTree))]
           \/ calls' = [calls EXCEPT ![c].pc = "failed", ![c].err = "ProcessorError"]
    /\ UNCHANGED <<profiles, cfg_parser_opts, nextId, registered, firstGot, lastLookup,
                   irVars, coVars, kvVars, opVars>>

\* doc = document(); translate_cfg(doc, updater)
TranslateBase(c) ==
    /\ calls[c].pc = "pre"
    /\ Stages(calls[c], "pre") = Len(calls[c].profile.pre_processors)
    /\ LET call == calls[c]
           d == TranslateCfg(call.updater, call.nobj + 1)
       IN  calls' = [calls EXCEPT
              ![c].pc = "reparse", ![c].doc = d, ![c].nobj = call.nobj + 1,
              ![c].log = Append(call.log,
                                Event("base", 0, "", call.updater, NoTree, NoDoc, d, NoTree))]
    /\ UNCHANGED <<profiles, cfg_parser_opts, nextId, registered, firstGot, lastLookup,
                   irVars, coVars, kvVars, opVars>>

\* orig = ConfigUpdater(**profile.cfg_parser_opts).read_string(cfg)
TranslateReparse(c) ==
    /\ calls[c].pc = "reparse"
    /\ LET call == calls[c]
           t == OrigTree(call)
       IN  calls' = [calls EXCEPT
              ![c].pc = "post", ![c].orig = t, ![c].nobj = call.nobj + 1,
              ![c].log = Append(call.log,
                                Event("reparse", 0, "", NoTree, t, NoDoc, NoDoc, t))]
    /\ UNCHANGED <<profiles, cfg_parser_opts, nextId, registered, firstGot, lastLookup,
                   irVars, coVars, kvVars, opVars>>

\* one step of reduce(..., profile.post_processors, doc); fn may raise
TranslatePost(c) ==
    /\ calls[c].pc = "post"
    /\ Stages(calls[c], "post") < Len(calls[c].profile.post_processors)
    /\ LET call == calls[c]
           i == Stages(call, "post") + 1
           fn == PostFn(call.profile.post_processors, i)
           d == ApplyFn(fn, call.doc, call.nobj + 1)
       IN  \/ calls' = [calls EXCEPT
                 ![c].doc = d, ![c].nobj = call.nobj + 1,
                 ![c].log = Append(call.log,
                                   Event("post", i, fn, NoTree, NoTree, call.doc, d, call.orig))]
           \/ calls' = [calls EXCEPT ![c].pc = "failed", ![c].err = "ProcessorError"]
    /\ UNCHANGED <<profiles, cfg_parser_opts, nextId, registered, firstGot, lastLookup,
                   irVars, coVars, kvVars, opVars>>

\* return dumps(doc).strip()
TranslateRender(c) ==
    /\ calls[c].pc = "post"
    /\ Stages(calls[c], "post") = Len(calls[c].profile.post_processors)
    /\ LET call == calls[c]
       IN  calls' = [calls EXCEPT
              ![c].pc = "done", ![c].out = Dumps(call.doc),
              ![c].log = Append(call.log,
                                Event("render", 0, "", NoTree, NoTree, call.doc, NoDoc, NoTree))]
    /\ UNCHANGED <<profiles, cfg_parser_opts, nextId, registered, firstGot, lastLookup,
                   irVars, coVars, kvVars, opVars>>

\* profiles an extension may have registered while the translator was built
ExtProfiles(opts) ==
    {[id |-> 1, name |-> "simple", cfg_parser_opts |-> opts,
      pre_processors |-> pre, post_processors |-> post] : pre \in Chains, post \in Chains}

\* Translator.__init__: the options are kept and the extensions have run
TrInit ==
    /\ cfg_parser_opts \in {NoOpts, Overrides}
    /\ \/ profiles = <<>>
       \/ \E p \in ExtProfiles(cfg_parser_opts) : profiles = DictSet(<<>>, p.name, p)
    /\ nextId = 2
    /\ registered = DOMAIN profiles
    /\ firstGot = <<>>
    /\ lastLookup = [name |-> "", ret |-> NoProfile, before |-> <<>>]
    /\ calls = [c \in CallIds |-> IdleCall]

\* a translator nobody uses, for the other specifications
TrQuiet ==
    /\ cfg_parser_opts = NoOpts
    /\ profiles = <<>>
    /\ nextId = 2
    /\ registered = {}
    /\ firstGot = <<>>
    /\ lastLookup = [name |-> "", ret |-> NoProfile, before |-> <<>>]
    /\ calls = [c \in CallIds |-> IdleCall]

(***************************************************************************)
(* collapse (drivers/plain_builtins.py)                                    *)
(***************************************************************************)
\* key segments: plain strings and one HiddenKey
Hiddens == {"#h"}
Segs == {"a", "b"} \cup Hiddens

\* longest tuple key tried
MaxTuple == 3

\* most entries of the collapsed IntermediateRepr
MaxEntries == 2

\* a key: a string or HiddenKey (one segment, not a tuple), or a tuple of one
\* or more of them
SingleKey(seg) == [tuple |-> FALSE, segs |-> <<seg>>]
TupleKey(segs) == [tuple |-> TRUE, segs |-> segs]

CKeys ==
    {SingleKey(x) : x \in Segs}
    \cup {TupleKey(t) : t \in UNION {[1..n -> Segs] : n \in 1..MaxTuple}}

\* isinstance(key, HiddenKey)
IsHidden(key) == ~key.tuple /\ key.segs[1] \in Hiddens

\* values: a scalar, a Commented (value given or NOT_GIVEN), a nested IntermediateRepr
Scalar(v) == [kind |-> "scalar", given |-> TRUE, v |-> v, items |-> <<>>]
CommentedValue(given, v) == [kind |-> "commented", given |-> given, v |-> v, items |-> <<>>]
Nested(items) == [kind |-> "irepr", given |-> TRUE, v |-> 0, items |-> items]

Entry(key, value) == [key |-> key, value |-> value]

CValues ==
    {Scalar(1), CommentedValue(FALSE, 0), CommentedValue(TRUE, 1),
     Nested(<<>>), Nested(<<Entry(SingleKey("a"), Scalar(2))>>)}

\* IntermediateRepr trees handed to collapse: entries in order, keys distinct
CollapseInputs ==
    {es \in UNION {[1..n -> [key : CKeys, value : CValues]] : n \in 0..MaxEntries} :
        \A i, j \in DOMAIN es : i # j => es[i].key # es[j].key}

\* nodes of the plain result: a dict, a value, or None; the result maps the path
\* of every key to its node (the root dict is the empty path)
DictNode == [kind |-> "dict", v |-> 0]
ValueNode(v) == [kind |-> "value", v |-> v]
NoneNode == [kind |-> "none", v |-> 0]

NodeAt(out, P) == IF P = <<>> THEN DictNode ELSE out[P]

IsPrefix(P, q) == Len(q) >= Len(P) /\ SubSeq(q, 1, Len(P)) = P

\* out.setdefault(key, {}) on the dict at path P
SetDefault(out, P, key) ==
    IF Append(P, key) \in DOMAIN out THEN out ELSE DictSet(out, Append(P, key), DictNode)

\* out[key] = node on the dict at path P: whatever was under key is replaced
Assign(out, P, key, node) ==
    LET Q == Append(P, key)
        kept == {q \in DOMAIN out : ~IsPrefix(Q, q)}
    IN  [q \in kept \cup {Q} |-> IF q = Q THEN node ELSE out[q]]

\* collapse(value) for a value that is not an IntermediateRepr
CollapseValue(value) ==
    IF value.kind = "commented"
    THEN (IF value.given THEN ValueNode(value.v) ELSE NoneNode)
    ELSE ValueNode(value.v)

Raised(st, err) == [st EXCEPT !.err = err]

\* _convert_irepr_to_dict(irepr, out), out being the object at path P of the result
RECURSIVE ConvertIreprToDict(_, _, _)
ConvertIreprToDict(entries, st, P) ==
    IF st.err # "" \/ entries = <<>> THEN st
    ELSE LET key == Head(entries).key
             value == Head(entries).value
             isdict == NodeAt(st.out, P).kind = "dict"
             st1 ==
               IF IsHidden(key) THEN st
               ELSE IF key.tuple
               THEN IF key.segs = <<>> THEN Raised(st, "ValueError")
                    ELSE IF Head(key.segs) \in Hiddens THEN Raised(st, "InvalidTOMLKey")
                    ELSE IF ~isdict THEN Raised(st, "AttributeError")
                    ELSE LET rest == Tail(key.segs)
                             nested_key == IF Len(rest) = 1 THEN SingleKey(rest[1])
                                           ELSE TupleKey(rest)
                         IN  ConvertIreprToDict(
                                 <<Entry(nested_key, value)>>,
                                 [st EXCEPT !.out = SetDefault(st.out, P, Head(key.segs))],
                                 Append(P, Head(key.segs)))
               ELSE IF value.kind = "irepr"
               THEN IF ~isdict THEN Raised(st, "AttributeError")
                    ELSE ConvertIreprToDict(
                             value.items,
                             [st EXCEPT !.out = SetDefault(st.out, P, key.segs[1])],
                             Append(P, key.segs[1]))
               ELSE IF ~isdict THEN Raised(st, "TypeError")
                    ELSE [st EXCEPT !.out = Assign(st.out, P, key.segs[1], CollapseValue(value))]
         IN  ConvertIreprToDict(Tail(entries), st1, P)

\* collapse(irepr) = _convert_irepr_to_dict(irepr, {})
collapse(irepr) == ConvertIreprToDict(irepr, [err |-> "", out |-> <<>>], <<>>)

NotRun == [err |-> "not run", out |-> <<>>]

Collapse ==
    /\ collapsed = NotRun
    /\ collapsed' = collapse(obj)
    /\ UNCHANGED <<obj, irVars, trVars, kvVars, opVars>>

CoInit == obj \in CollapseInputs /\ collapsed = NotRun

CoQuiet == obj = <<>> /\ collapsed = NotRun

(***************************************************************************)
(* CommentedKV.to_ir                                                       *)
(***************************************************************************)
KVKeys == {"x", "y"}
KVValues == {1, 2}

\* a row comment; "" stands for no comment (None), which has_comment() rejects alike
Comments == {"", "c1", "c2"}

\* most (key, value) pairs on one row, most rows
MaxRowItems == 2
MaxRows == 2

\* Commented(value, comment): value is a list of (key, value) pairs or NOT_GIVEN
Row(given, kvs, comment) == [given |-> given, kvs |-> kvs, comment |-> comment]

Rows ==
    {Row(FALSE, <<>>, c) : c \in Comments}
    \cup {Row(TRUE, kvs, c) :
            kvs \in UNION {[1..n -> KVKeys \X KVValues] : n \in 0..MaxRowItems},
            c \in Comments}

\* Commented.value_or([])
ValueOrEmpty(row) == IF row.given THEN row.kvs ELSE <<>>

\* Commented.has_comment
HasComment(row) == row.comment # ""

\* the values to_ir stores: a plain value, or Commented(value, comment)
Plain(v) == [wrapped |-> FALSE, v |-> v, comment |-> ""]
Wrapped(v, comment) == [wrapped |-> TRUE, v |-> v, comment |-> comment]

\* the inner loop `for key, value in row.value_or([]): irepr[key] = value`;
\* the loop variables stay bound to the last pair after the loop
RECURSIVE StoreRow(_, _)
StoreRow(st, kvs) ==
    IF kvs = <<>> THEN st
    ELSE LET r == setitem(st.elements, st.order, Head(kvs)[1], Plain(Head(kvs)[2]))
         IN  StoreRow([st EXCEPT !.elements = r.elements, !.order = r.order,
                                 !.bound = TRUE, !.key = Head(kvs)[1],
                                 !.value = Head(kvs)[2]],
                      Tail(kvs))

\* `if row.has_comment(): irepr[key] = Commented(value, row.comment)`
AttachComment(st, row) ==
    IF ~HasComment(row) THEN st
    ELSE IF ~st.bound THEN [st EXCEPT !.err = "UnboundLocalError"]
    ELSE LET r == setitem(st.elements, st.order, st.key, Wrapped(st.value, row.comment))
         IN  [st EXCEPT !.elements = r.elements, !.order = r.order]

\* the outer loop `for row in self`
RECURSIVE ToIrRows(_, _)
ToIrRows(st, rows) ==
    IF st.err # "" \/ rows = <<>> THEN st
    ELSE ToIrRows(AttachComment(StoreRow(st, ValueOrEmpty(Head(rows))), Head(rows)),
                  Tail(rows))

\* CommentedKV.to_ir
to_ir(rows) ==
    LET st == ToIrRows([err |-> "", elements |-> <<>>, order |-> <<>>,
                        bound |-> FALSE, key |-> "", value |-> 0], rows)
    IN  [err |-> st.err, elements |-> st.elements, order |-> st.order]

KvNotRun == [err |-> "not run", elements |-> <<>>, order |-> <<>>]

ToIr ==
    /\ promoted = KvNotRun
    /\ promoted' = to_ir(data)
    /\ UNCHANGED <<data, irVars, trVars, coVars, opVars>>

KvInit ==
    /\ data \in UNION {[1..n -> Rows] : n \in 0..MaxRows}
    /\ promoted = KvNotRun

KvQuiet == data = <<>> /\ promoted = KvNotRun

(***************************************************************************)
(* translate_option                                                        *)
(***************************************************************************)
\* characters of an option value: content, blank, the two default comment
\* prefixes and the line break
Chars == {"v", " ", "#", ";", "\n"}
White == {" ", "\n"}

\* longest option value tried
MaxValueLen == 4

\* the value of the documented example, "5.3  # comment"
ExampleValue ==
    <<"5", ".", "3", " ", " ", "#", " ", "c", "o", "m", "m", "e", "n", "t">>

OptionValues == UNION {[1..n -> Chars] : n \in 0..MaxValueLen} \cup {ExampleValue}

\* parser_opts.get("comment_prefixes", "#;")
DefaultPrefixes == <<"#", ";">>

ParserOpts ==
    {<<>>} \cup {"comment_prefixes" :> c : c \in {<<"#">>, <<";">>, <<";", "#">>}}

\* dict.get(k, default)
Get(d, k, default) == IF k \in DOMAIN d THEN d[k] ELSE default

\* str.splitlines(), the line break being "\n"
RECURSIVE SplitLines(_, _)
SplitLines(s, line) ==
    IF s = <<>> THEN (IF line = <<>> THEN <<>> ELSE <<line>>)
    ELSE IF Head(s) = "\n" THEN <<line>> \o SplitLines(Tail(s), <<>>)
    ELSE SplitLines(Tail(s), Append(line, Head(s)))

\* str.split(sep, maxsplit=1) for a sep that occurs in s
RECURSIVE SplitOnce(_, _, _)
SplitOnce(s, sep, left) ==
    IF Head(s) = sep THEN <<left, Tail(s)>>
    ELSE SplitOnce(Tail(s), sep, Append(left, Head(s)))

\* str.lstrip(chars)
RECURSIVE LStrip(_, _)
LStrip(s, chars) ==
    IF s # <<>> /\ Head(s) \in chars THEN LStrip(Tail(s), chars) ELSE s

\* str.rstrip(chars)
RECURSIVE RStrip(_, _)
RStrip(s, chars) ==
    IF s # <<>> /\ s[Len(s)] \in chars THEN RStrip(SubSeq(s, 1, Len(s) - 1), chars) ELSE s

\* str.strip()
Strip(s) == RStrip(LStrip(s, White), White)

\* taking the last of the prefixes found in the value
LastPrefix(prefixes) == prefixes[Len(prefixes)]

\* prefix = prefixes[0]
ChosenPrefix(prefixes) == prefixes[1]

\* a table entry: the stored string and its inline comment, if any
Stored(value, has_comment, comment) ==
    [value |-> value, has_comment |-> has_comment, comment |-> comment]

\* translate_option(container, item, parser_opts)
translate_option(cont, it, opts) ==
    LET value == it.value
        InValue(p) == p \in Range(value)
        prefixes == SelectSeq(Get(opts, "comment_prefixes", DefaultPrefixes), InValue)
    IN  IF prefixes = <<>> \/ Len(SplitLines(value, <<>>)) > 1
        THEN DictSet(cont, it.key, Stored(it.value, FALSE, <<>>))
        ELSE LET prefix == ChosenPrefix(prefixes)
                 parts == SplitOnce(value, prefix, <<>>)
                 cmt == Strip(parts[2])
             IN  DictSet(cont, it.key,
                         Stored(Strip(parts[1]), TRUE, Strip(LStrip(Strip(cmt), {prefix}))))

TranslateOption ==
    /\ container = <<>>
    /\ container' = translate_option(container, item, parser_opts)
    /\ UNCHANGED <<item, parser_opts, irVars, trVars, coVars, kvVars>>

OpInit ==
    /\ item \in [key : {"version"}, value : OptionValues]
    /\ parser_opts \in ParserOpts
    /\ container = <<>>

OpQuiet ==
    /\ item = [key |-> "version", value |-> <<>>]
    /\ parser_opts = <<>>
    /\ container = <<>>

\* an IntermediateRepr nobody uses, for the other specifications
IRQuiet == IRInit

Init == IRInit /\ TrQuiet /\ CoQuiet /\ KvQuiet /\ OpQuiet

Next ==
    \/ Insert
    \/ AppendKey
    \/ Rename
    \/ SetItem
    \/ DelItem
    \/ ReplaceFirstRemoveOthers
    \/ Return

Spec == Init /\ [][Next]_vars

\* the translator used from one thread: one translate call at a time
TrCall(c) ==
    \/ TranslateBegin(c)
    \/ TranslateLookup(c)
    \/ TranslateParse(c)
    \/ TranslatePre(c)
    \/ TranslateBase(c)
    \/ TranslateReparse(c)
    \/ TranslatePost(c)
    \/ TranslateRender(c)

TrNext ==
    \/ Lookup
    \/ TrCall("c1")

InitTranslator == TrInit /\ IRQuiet /\ CoQuiet /\ KvQuiet /\ OpQuiet

SpecTranslator == InitTranslator /\ [][TrNext]_vars

\* the translator shared by several threads: translate calls interleave at
\* statement boundaries, each call being at its own position
TrConcurrentNext == \E c \in CallIds : TrCall(c)

SpecConcurrent == InitTranslator /\ [][TrConcurrentNext]_vars


InitCollapse == CoInit /\ IRQuiet /\ TrQuiet /\ KvQuiet /\ OpQuiet

SpecCollapse == InitCollapse /\ [][Collapse]_vars

InitKv == KvInit /\ IRQuiet /\ TrQuiet /\ CoQuiet /\ OpQuiet

SpecKv == InitKv /\ [][ToIr]_vars

InitOption == OpInit /\ IRQuiet /\ TrQuiet /\ CoQuiet /\ KvQuiet

SpecOption == InitOption /\ [][TranslateOption]_vars

(***************************************************************************)
(* Properties of IntermediateRepr                                          *)
(***************************************************************************)
LastCall == irLast.call

\* s without the members of S, order kept
Without(s, S) == LET Keep(x) == x \notin S IN SelectSeq(s, Keep)

Occurrences(s, x) == Cardinality({i \in DOMAIN s : s[i] = x})

\* C1: after every operation (failing ones included) the keys of the order
\* sequence are the keys of the elements mapping.
KeyOrderInvariant == Range(order) = DOMAIN elements

\* C1 witness: a replace_first_remove_others that failed after removing keys
KeyOrderWitness ==
    /\ LastCall.op = "replace_first_remove_others"
    /\ irLast.outcome = "ValueError"
    /\ order # LastCall.pre_order
    /\ Len(order) >= 1

\* what C6 says of a rename(old_key, new_key, ignore_missing) call
RenameClause(c) ==
    /\ c.key2 \in DOMAIN c.pre_elements => irLast.outcome # "ok"
    /\ (c.key \notin DOMAIN c.pre_elements /\ ~c.flag) => irLast.outcome # "ok"
    /\ (c.key \notin DOMAIN c.pre_elements /\ c.flag /\ irLast.outcome = "ok") =>
           (elements = c.pre_elements /\ order = c.pre_order)
    /\ (irLast.outcome = "ok" /\ c.key \in DOMAIN c.pre_elements) =>
           /\ Len(order) = Len(c.pre_order)
           /\ \A i \in DOMAIN order :
                 order[i] = IF c.pre_order[i] = c.key THEN c.key2 ELSE c.pre_order[i]
           /\ c.key2 \in DOMAIN elements
           /\ elements[c.key2] = c.pre_elements[c.key]
           /\ c.key \notin DOMAIN elements
           /\ \A k \in DOMAIN elements \ {c.key2} :
                 k \in DOMAIN c.pre_elements /\ elements[k] = c.pre_elements[k]

\* C6 (as stated): for every pair of keys rename fails on an existing target,
\* fails on a missing source unless ignore_missing, and otherwise moves the
\* position and value of old_key to new_key.
RenameAsClaimed == LastCall.op = "rename" => RenameClause(LastCall)

\* C6 (amended): the same for old_key # new_key; rename(k, k) is a no-op that
\* never fails, whether or not k is a key.
RenameContract ==
    LastCall.op = "rename" =>
        IF LastCall.key = LastCall.key2
        THEN /\ irLast.outcome = "ok"
             /\ elements = LastCall.pre_elements
             /\ order = LastCall.pre_order
        ELSE RenameClause(LastCall)

\* C6 witness: a successful rename of a present key that is not the last one
RenameWitness ==
    /\ LastCall.op = "rename"
    /\ irLast.outcome = "ok"
    /\ LastCall.key # LastCall.key2
    /\ Len(LastCall.pre_order) = 2
    /\ LastCall.pre_order[1] = LastCall.key
    /\ order[1] = LastCall.key2

\* C7: replace_first_remove_others with new_key not a key outside existing_keys
\* puts new_key at the smallest position a present listed key had, removes the
\* listed keys, keeps the other keys in order and returns that position; with
\* no listed key present it appends new_key.
ReplaceFirstContract ==
    (/\ LastCall.op = "replace_first_remove_others"
     /\ LastCall.key2 \notin (DOMAIN LastCall.pre_elements \ Range(LastCall.keys))) =>
        LET c == LastCall
            listed == Range(c.keys)
            present == {i \in DOMAIN c.pre_order : c.pre_order[i] \in listed}
        IN  /\ irLast.outcome = "ok"
            /\ Occurrences(order, c.key2) = 1
            /\ elements[c.key2] = c.value
            /\ \A k \in listed \ {c.key2} : k \notin Range(order) /\ k \notin DOMAIN elements
            /\ Without(order, {c.key2}) = Without(c.pre_order, listed \cup {c.key2})
            /\ \A k \in DOMAIN elements \ {c.key2} : elements[k] = c.pre_elements[k]
            /\ IF present # {}
               THEN /\ order[Min(present)] = c.key2
                    /\ irLast.ret = Min(present) - 1
               ELSE /\ order = Append(c.pre_order, c.key2)
                    /\ irLast.ret = Len(c.pre_order)

\* C7 witness: keys [a, b, c] with b and c present, c before b, and a absent
ReplaceFirstWitness ==
    /\ LastCall.op = "replace_first_remove_others"
    /\ LastCall.keys = <<"a", "b", "c">>
    /\ LastCall.pre_order = <<"c", "b">>
    /\ LastCall.key2 = "a"
    /\ irLast.ret = 0
    /\ order = <<"a">>

(***************************************************************************)
(* Properties of Translator                                                *)
(***************************************************************************)
Started(c) == calls[c].pc # "idle"

\* the stage events of a call before position k
Before(call, k, stage) == {j \in 1..(k - 1) : call.log[j].stage = stage}

\* C2: translate raises UndefinedProfile, with no output, exactly when the name
\* was neither registered while the translator was built nor looked up on it
\* before the call; the registry holds exactly those names.
UndefinedProfileIff ==
    /\ DOMAIN profiles = registered \cup DOMAIN firstGot
    /\ \A c \in CallIds : Started(c) =>
          /\ (calls[c].err = "UndefinedProfile") <=> (calls[c].name \notin calls[c].known)
          /\ calls[c].err = "UndefinedProfile" =>
                (calls[c].pc = "failed" /\ calls[c].out = NoOut /\ calls[c].log = <<>>)

\* C2 witness: a translate that returned for a name known only from a lookup,
\* on a translator where an earlier state would have raised
UndefinedProfileWitness ==
    /\ calls["c1"].pc = "done"
    /\ calls["c1"].name \notin registered
    /\ calls["c1"].name \in DOMAIN firstGot

\* C3: a lookup of an unregistered name stores a new default profile carrying
\* the translator's parser options; every later lookup returns that same
\* object; a lookup of a registered name leaves the registry as it was.
LookupIdempotent ==
    /\ \A n \in DOMAIN firstGot : n \in DOMAIN profiles /\ profiles[n] = firstGot[n]
    /\ lastLookup.name # "" =>
          LET n == lastLookup.name
              b == lastLookup.before
              ret == lastLookup.ret
          IN  /\ ret = firstGot[n]
              /\ n \in DOMAIN b => (ret = b[n] /\ profiles = b)
              /\ n \notin DOMAIN b =>
                    /\ \A m \in DOMAIN b : b[m].id # ret.id
                    /\ ret.name = n
                    /\ ret.cfg_parser_opts =
                          (IF cfg_parser_opts # {} THEN cfg_parser_opts ELSE DefaultOpts)
                    /\ ret.pre_processors = <<>>
                    /\ ret.post_processors = <<>>
                    /\ profiles = DictSet(b, n, ret)

\* C3 witness: a repeated lookup of a name that only a lookup had created,
\* on a translator with parser-option overrides
LookupIdempotentWitness ==
    /\ lastLookup.name = "other"
    /\ "other" \in DOMAIN lastLookup.before
    /\ cfg_parser_opts = Overrides
    /\ lastLookup.ret.cfg_parser_opts = Overrides

\* C4: within one translate call the pre-processors run before the base
\* translation, in registration order, each on the tree the previous one
\* returned; the post-processors run after it, in registration order, each on
\* the document the previous one returned; rendering comes last.
StageOrder ==
    \A c \in CallIds :
        LET call == calls[c]
            L == call.log
            pre == call.profile.pre_processors
            post == call.profile.post_processors
        IN  \A k \in DOMAIN L :
              LET e == L[k] IN
              /\ e.stage = "parse" => k = 1
              /\ e.stage = "pre" =>
                    /\ k = e.idx + 1
                    /\ e.idx \in DOMAIN pre
                    /\ e.fn = pre[e.idx]
                    /\ L[k - 1].stage = IF e.idx = 1 THEN "parse" ELSE "pre"
                    /\ e.tree_in = L[k - 1].tree_out
                    /\ Before(call, k, "base") = {}
              /\ e.stage = "base" =>
                    /\ k = Len(pre) + 2
                    /\ Cardinality(Before(call, k, "pre")) = Len(pre)
                    /\ e.tree_in = L[k - 1].tree_out
              /\ e.stage = "reparse" => (k = Len(pre) + 3 /\ L[k - 1].stage = "base")
              /\ e.stage = "post" =>
                    /\ k = Len(pre) + 3 + e.idx
                    /\ e.idx \in DOMAIN post
                    /\ e.fn = post[e.idx]
                    /\ Cardinality(Before(call, k, "base")) = 1
                    /\ e.doc_in = IF e.idx = 1 THEN L[Len(pre) + 2].doc_out
                                  ELSE L[k - 1].doc_out
              /\ e.stage = "render" =>
                    /\ k = Len(pre) + Len(post) + 4
                    /\ Cardinality(Before(call, k, "post")) = Len(post)
                    /\ e.doc_in = IF post = <<>> THEN L[Len(pre) + 2].doc_out
                                  ELSE L[k - 1].doc_out
                    /\ call.out = Dumps(e.doc_in)

\* C4 witness: a finished call whose profile has two different pre-processors
\* and two different post-processors
StageOrderWitness ==
    /\ calls["c1"].pc = "done"
    /\ calls["c1"].profile.pre_processors = <<"swap", "edit">>
    /\ calls["c1"].profile.post_processors = <<"edit", "swap">>
    /\ Len(calls["c1"].log) = 8

\* the trees that were parsed first, pre-processed and translated
WorkedTrees(call) ==
    {call.log[k].tree_out.id :
        k \in {j \in DOMAIN call.log : call.log[j].stage \in {"parse", "pre"}}}
    \cup {call.log[k].tree_in.id :
        k \in {j \in DOMAIN call.log : call.log[j].stage \in {"pre", "base"}}}

\* C5: the tree the first post-processor receives is the parse of the untouched
\* input text and is another object than any tree that was pre-processed or
\* translated.
OrigIsSecondParse ==
    \A c \in CallIds :
        LET call == calls[c] IN
        \A k \in DOMAIN call.log :
            (call.log[k].stage = "post" /\ call.log[k].idx = 1) =>
                /\ call.log[k].orig.src = call.cfg
                /\ call.log[k].orig.opts = call.profile.cfg_parser_opts
                /\ call.log[k].orig.edits = <<>>
                /\ call.log[k].orig.id \notin WorkedTrees(call)

\* C5 witness: a post-processor ran after one pre-processor changed the tree in
\* place and another replaced it
OrigIsSecondParseWitness ==
    \E k \in DOMAIN calls["c1"].log :
        /\ calls["c1"].log[k].stage = "post"
        /\ calls["c1"].log[k].idx = 1
        /\ calls["c1"].profile.pre_processors = <<"edit", "swap">>

(***************************************************************************)
(* Properties of collapse                                                  *)
(***************************************************************************)
\* a tuple key whose leading segment is not a string
BadLeading(key) == key.tuple /\ key.segs # <<>> /\ Head(key.segs) \in Hiddens

\* C8: collapse raises InvalidTOMLKey when a tuple key's leading segment is not
\* a string and otherwise returns a plain nested mapping without an error, with
\* hidden keys left out and an absent Commented value as None under its key.
CollapseTotal ==
    collapsed # NotRun =>
        IF \E i \in DOMAIN obj : BadLeading(obj[i].key)
        THEN collapsed.err = "InvalidTOMLKey"
        ELSE /\ collapsed.err = ""
             /\ \A q \in DOMAIN collapsed.out : \A j \in DOMAIN q : q[j] \notin Hiddens
             /\ \A i \in DOMAIN obj :
                   (/\ ~obj[i].key.tuple
                    /\ ~IsHidden(obj[i].key)
                    /\ obj[i].value = CommentedValue(FALSE, 0)) =>
                       /\ obj[i].key.segs \in DOMAIN collapsed.out
                       /\ collapsed.out[obj[i].key.segs] = NoneNode

(***************************************************************************)
(* Properties of CommentedKV.to_ir                                         *)
(***************************************************************************)
RowKeys(row) == {ValueOrEmpty(row)[j][1] : j \in DOMAIN ValueOrEmpty(row)}

\* C9: in the IntermediateRepr that to_ir returns a row's comment is attached
\* only to a key of that same row: every key wrapped with a comment stands on
\* a row carrying that comment, and, the keys of the rows being distinct, every
\* commented row with a key has one of its own keys wrapped with its comment.
CommentOnOwnRow ==
    promoted.err = "" =>
        /\ \A k \in DOMAIN promoted.elements :
              promoted.elements[k].wrapped =>
                 \E r \in DOMAIN data :
                    /\ data[r].comment = promoted.elements[k].comment
                    /\ k \in RowKeys(data[r])
        /\ (\A r1, r2 \in DOMAIN data :
               r1 # r2 => RowKeys(data[r1]) \cap RowKeys(data[r2]) = {}) =>
              \A r \in DOMAIN data :
                 (HasComment(data[r]) /\ RowKeys(data[r]) # {}) =>
                    \E k \in RowKeys(data[r]) :
                       /\ k \in DOMAIN promoted.elements
                       /\ promoted.elements[k].wrapped
                       /\ promoted.elements[k].comment = data[r].comment

(***************************************************************************)
(* Properties of translate_option                                          *)
(***************************************************************************)
Max(S) == CHOOSE x \in S : \A y \in S : y <= x

\* s without the blanks and line breaks around it
Trimmed(s) ==
    LET solid == {i \in DOMAIN s : s[i] \notin White}
    IN  IF solid = {} THEN <<>> ELSE SubSeq(s, Min(solid), Max(solid))

\* s without the run of p at its start
WithoutLeading(s, p) ==
    LET other == {i \in DOMAIN s : s[i] # p}
    IN  IF other = {} THEN <<>> ELSE SubSeq(s, Min(other), Len(s))

\* something follows a line break: the value spans more than one physical line
MultiLine(s) == \E i \in DOMAIN s : s[i] = "\n" /\ i < Len(s)

\* C10: a value of several lines, or without any configured prefix character,
\* is stored verbatim without a comment; otherwise it is split at the first
\* occurrence of the first configured prefix character that occurs in it, the
\* trimmed left part is the value and the right part, its leading prefix
\* characters and surrounding whitespace removed, is the inline comment.
OptionSplit ==
    container # <<>> =>
        LET value == item.value
            configured == IF "comment_prefixes" \in DOMAIN parser_opts
                          THEN parser_opts["comment_prefixes"] ELSE <<"#", ";">>
            found == {i \in DOMAIN configured : \E j \in DOMAIN value : value[j] = configured[i]}
            cell == container[item.key]
        IN  /\ DOMAIN container = {item.key}
            /\ IF MultiLine(value) \/ found = {}
               THEN cell.value = value /\ ~cell.has_comment
               ELSE LET p == configured[Min(found)]
                        k == Min({j \in DOMAIN value : value[j] = p})
                    IN  /\ cell.value = Trimmed(SubSeq(value, 1, k - 1))
                        /\ cell.has_comment
                        /\ cell.comment =
                              Trimmed(WithoutLeading(
                                  Trimmed(SubSeq(value, k + 1, Len(value))), p))

\* C10 witness: "5.3  # comment" gives the value 5.3 and the comment "comment"
OptionSplitWitness ==
    /\ container # <<>>
    /\ item.value = ExampleValue
    /\ container[item.key].value = <<"5", ".", "3">>
    /\ container[item.key].has_comment
    /\ container[item.key].comment = <<"c", "o", "m", "m", "e", "n", "t">>

(***************************************************************************)
(* Properties of interleaved translate calls                               *)
(***************************************************************************)
\* C11: translate never changes the translator's state: whatever the
\* interleaving of translate calls on one Translator, and whether they
\* succeed or fail, every step leaves the profile registry (its names and the
\* profile object under each name) and the translator's parser options as
\* they were, hence as they were before the calls started.
TranslateKeepsState ==
    [][/\ profiles' = profiles
       /\ cfg_parser_opts' = cfg_parser_opts]_vars

\* two calls are under way at once on a registered profile, one of them past
\* its lookup and the other already failed in a processor, and a call for a
\* name that is not registered has been refused before
TranslateKeepsStateWitness ==
    \E c, d \in CallIds :
        /\ c # d
        /\ calls[c].pc = "post"
        /\ calls[c].profile = profiles[calls[c].name]
        /\ calls[d].pc = "failed"
        /\ calls[d].err = "ProcessorError"
        /\ calls[d].name = calls[c].name
        /\ lastLookup.name = calls[c].name
        /\ lastLookup.before = profiles

(***************************************************************************)
(* Properties of failing operations on IntermediateRepr                    *)
(***************************************************************************)
\* the arguments for which insert, append, rename and deletion are said to fail
FailCase(c) ==
    CASE c.op \in {"insert", "append"} -> c.key \in DOMAIN c.pre_elements
      [] c.op = "rename" -> \/ c.key2 \in DOMAIN c.pre_elements
                            \/ c.key \notin DOMAIN c.pre_elements /\ ~c.flag
      [] c.op = "delitem" -> c.key \notin DOMAIN c.pre_elements
      [] OTHER -> FALSE

\* the three fields are what they were when the call was made
Untouched(c) ==
    /\ elements = c.pre_elements
    /\ order = c.pre_order
    /\ inline_comment = c.pre_comment

\* C12: a failing insert, append, rename or deletion leaves the elements, the
\* order and the inline comment exactly as they were before the call.  These
\* calls fail only for the listed arguments (insert/append of an existing key,
\* rename onto an existing key or of a missing key without ignore_missing,
\* deletion of a missing key), for those arguments nothing is changed, and
\* insert, append and deletion always fail for them.
FailureLeavesUnchanged ==
    LastCall.op \in {"insert", "append", "rename", "delitem"} =>
        /\ irLast.outcome # "ok" => (FailCase(LastCall) /\ Untouched(LastCall))
        /\ FailCase(LastCall) => Untouched(LastCall)
        /\ (FailCase(LastCall) /\ LastCall.op # "rename") => irLast.outcome # "ok"

\* C12 witness: insert at the front, of the key that is second of two, failed
FailureLeavesUnchangedWitness ==
    /\ LastCall.op = "insert"
    /\ irLast.outcome = "ValueError"
    /\ LastCall.idx = 0
    /\ Len(LastCall.pre_order) = 2
    /\ LastCall.pre_order[2] = LastCall.key
    /\ order = LastCall.pre_order

====
